---- MODULE Spec2Model ----
(***************************************************************************)
(* Model of the point-cloud octree loader (loadPOC and its helpers) and of *)
(* the binary point-record decoder worker (onmessage).                     *)
(*                                                                         *)
(* Strings that the code indexes (node names, version strings) are         *)
(* sequences of one-character strings: "r07" is <<"r","0","7">>.           *)
(***************************************************************************)
EXTENDS Integers, Sequences, FiniteSets, TLC

VARIABLES
  doc,          \* the metadata document served for the url (POCJson)
  pc,           \* position of the loadPOC promise chain
  promise,      \* state of the promise loadPOC returned
  error,        \* what made the load fail ("none" while it has not)
  log,          \* the steps taken so far, in order
  objs,         \* node objects constructed so far: id -> node
  nodes,        \* parse()'s local name -> node table
  pcoRoot,      \* pco.root: the set holding the root's id once set
  pcoSpacing,   \* pco.spacing
  pcoNodes,     \* pco.nodes once assigned
  pcoNodesSet,  \* whether pco.nodes has been assigned
  rootFrom,     \* where loadRoot took root.numPoints from
  attached,     \* the addChild calls made: <<parent id, child id, octant index>>
  i,            \* loop variable of loadRemainingHierarchy
  run,          \* the kind of run: which requests the client may send
  budget,       \* how many more requests the client may send
  inbox,        \* messages delivered to the worker, not yet handled
  wpc,          \* position of the worker's onmessage handler
  ev,           \* event.data of the activation under way
  loc,          \* the handler's local variables
  handled       \* per handled message: the request, how it ended, what it posted

loaderVars == <<doc, pc, promise, error, log, objs, nodes, pcoRoot,
                pcoSpacing, pcoNodes, pcoNodesSet, rootFrom, attached, i>>

workerVars == <<run, budget, inbox, wpc, ev, loc, handled>>

vars == <<loaderVars, workerVars>>

----------------------------------------------------------------------------
(* Bounds and input pools                                                  *)

\* Largest number of entries of a flat hierarchy list (root entry included).
MaxEntries == 3

R == <<"r">>

\* Node names a hierarchy entry may carry: well-formed ones, the empty name,
\* a digit outside 0..7 and a letter as last character.
NamePool ==
  { <<>>, R,
    <<"r","0">>, <<"r","1">>, <<"r","8">>, <<"r","x">>, <<"r","y">>,
    <<"r","0","0">>, <<"r","0","7">>, <<"r","0","8">>, <<"r","1","0">>,
    <<"r","0","0","1">> }

\* Version strings of the document.
VersionPool ==
  { <<"1">>, <<"1",".","4">>, <<"1",".","5">>, <<"1",".","7">>,
    <<"2",".","0">>, <<"v","1">> }

\* Root spacing of the document; multiples of 8 so that spacing / 2^level is
\* exact for every level a pool name can have.
SpacingPool == {8, 24}

\* Point counts: entry k of a list carries base + k.
CountBases == {10, 20}

Hierarchies ==
  UNION { { [k \in 1..n |-> [name |-> IF k = 1 THEN R ELSE f[k],
                             numPoints |-> b + k]] :
              f \in [1..n -> NamePool], b \in CountBases }
          : n \in 0..MaxEntries }

Docs ==
  { [version |-> v, spacing |-> s, hierarchyPresent |-> TRUE, hierarchy |-> h] :
      v \in VersionPool, s \in SpacingPool, h \in Hierarchies }
  \cup
  { [version |-> v, spacing |-> s, hierarchyPresent |-> FALSE, hierarchy |-> <<>>] :
      v \in VersionPool, s \in SpacingPool }

----------------------------------------------------------------------------
(* Version gate                                                            *)

DigitChars == <<"0","1","2","3","4","5","6","7","8","9">>

IsDigit(c) == \E d \in 1..10 : DigitChars[d] = c

DigitVal(c) == (CHOOSE d \in 1..10 : DigitChars[d] = c) - 1

\* The dot-separated components of a version string.
RECURSIVE SplitDots(_)
SplitDots(s) ==
  IF s = <<>> THEN << <<>> >>
  ELSE LET rest == SplitDots(Tail(s))
       IN  IF Head(s) = "." THEN << <<>> >> \o rest
           ELSE << <<Head(s)>> \o Head(rest) >> \o Tail(rest)

RECURSIVE ToNumber(_)
ToNumber(cs) ==
  IF cs = <<>> THEN 0
  ELSE 10 * ToNumber(SubSeq(cs, 1, Len(cs) - 1)) + DigitVal(cs[Len(cs)])

\* A recognised dotted-numeric version string.
VersionRecognised(s) ==
  \A k \in 1..Len(SplitDots(s)) :
     LET c == SplitDots(s)[k]
     IN  c # <<>> /\ \A j \in 1..Len(c) : IsDigit(c[j])

VersionParse(s) == [k \in 1..Len(SplitDots(s)) |-> ToNumber(SplitDots(s)[k])]

VersionComponent(a, k) == IF k <= Len(a) THEN a[k] ELSE 0

\* a > b, component by component from the left, missing components zero.
VersionNewer(a, b) ==
  LET n == IF Len(a) > Len(b) THEN Len(a) ELSE Len(b)
  IN  \E k \in 1..n :
        /\ VersionComponent(a, k) > VersionComponent(b, k)
        /\ \A j \in 1..(k - 1) : VersionComponent(a, j) = VersionComponent(b, j)

\* version.upTo(threshold)
upTo(version, threshold) ==
  ~VersionNewer(VersionParse(version), VersionParse(threshold))

----------------------------------------------------------------------------
(* Node names                                                              *)

\* parseInt's result for a character that starts no decimal number.
NaN == -1

\* parseInt(c, 10) for the string c of at most one character.
parseInt(c) == IF c # <<>> /\ IsDigit(c[1]) THEN DigitVal(c[1]) ELSE NaN

\* name.charAt(k) for the 0-based k: the empty string outside the name.
charAt(name, k) == IF k >= 0 /\ k < Len(name) THEN <<name[k + 1]>> ELSE <<>>

getIndexFromName(name) == parseInt(charAt(name, Len(name) - 1))

\* name.substring(0, e): a negative end counts as 0.
substring0(name, e) == IF e <= 0 THEN <<>> ELSE SubSeq(name, 1, e)

\* parseName with the level counted from the name's full length.
parseNameLevelFromLength(name) ==
  [index      |-> getIndexFromName(name),
   parentName |-> substring0(name, Len(name) - 1),
   level      |-> Len(name)]

parseName(name) ==
  [index      |-> getIndexFromName(name),
   parentName |-> substring0(name, Len(name) - 1),
   level      |-> Len(name) - 1]

RECURSIVE Pow2(_)
Pow2(n) == IF n <= 0 THEN 1 ELSE 2 * Pow2(n - 1)

----------------------------------------------------------------------------
(* Node objects                                                            *)

\* new PointCloudOctreeGeometryNode(name, pco, boundingBox), with the fields
\* the loader goes on to set at their defaults.
NewNode(name) ==
  [name |-> name, level |-> 0, numPoints |-> 0, spacing |-> 0,
   hasChildren |-> FALSE]

\* Threshold of the decision to populate the tree from the flat list.
LegacyThreshold == <<"1",".","4">>

\* The root-count decision made at the legacy threshold instead.
RootCountThresholdLegacy == <<"1",".","4">>

\* Threshold of the decision to take the root's point count from the list.
RootCountThreshold == <<"1",".","5">>

\* The loop stopping one entry early.
LoopCondStopsEarly(k, hierarchy) == k < Len(hierarchy) - 1

\* Loop condition of loadRemainingHierarchy, i the 0-based index.
LoopCond(k, hierarchy) == k < Len(hierarchy)

\* The iteration with an entry whose parent is missing skipped silently.
LoadEntrySkipsMissingParent(ns, os, att, k, entry, spacing) ==
  LET p == parseName(entry.name)
  IN  IF p.parentName \notin DOMAIN ns
      THEN [threw |-> FALSE, nodes |-> ns, objs |-> os, attached |-> att]
      ELSE LET node == [NewNode(entry.name) EXCEPT
                          !.level = p.level,
                          !.numPoints = entry.numPoints,
                          !.spacing = spacing \div Pow2(p.level)]
           IN  [threw |-> FALSE,
                nodes |-> (entry.name :> k) @@ ns,
                objs  |-> (k :> node) @@ os,
                attached |-> att \cup {<<ns[p.parentName], k, p.index>>}]

\* One iteration of loadRemainingHierarchy's loop on entry `entry`, whose
\* 0-based index k becomes the new node's id.  A parent missing from the
\* table makes parentNode undefined, and reading parentNode.boundingBox
\* throws.  Otherwise the node is created in octant `index` of its parent,
\* registered under its name and handed to parentNode.addChild.
LoadEntry(ns, os, att, k, entry, spacing) ==
  LET p == parseName(entry.name)
  IN  IF p.parentName \notin DOMAIN ns
      THEN [threw |-> TRUE, nodes |-> ns, objs |-> os, attached |-> att]
      ELSE LET node == [NewNode(entry.name) EXCEPT
                          !.level = p.level,
                          !.numPoints = entry.numPoints,
                          !.spacing = spacing \div Pow2(p.level)]
           IN  [threw |-> FALSE,
                nodes |-> (entry.name :> k) @@ ns,
                objs  |-> (k :> node) @@ os,
                attached |-> att \cup {<<ns[p.parentName], k, p.index>>}]

----------------------------------------------------------------------------
(* loadPOC                                                                 *)

InitLoader ==
  /\ doc \in Docs
  /\ pc = "start"
  /\ promise = "none"
  /\ error = "none"
  /\ log = <<>>
  /\ objs = [k \in {} |-> NewNode(R)]
  /\ nodes = [n \in {} |-> 0]
  /\ pcoRoot = {}
  /\ pcoSpacing = 0
  /\ pcoNodes = [n \in {} |-> 0]
  /\ pcoNodesSet = FALSE
  /\ rootFrom = "unset"
  /\ attached = {}
  /\ i = 0

\* A step of the chain fails: the promise loadPOC returned rejects.
Reject(why) ==
  /\ promise' = "rejected"
  /\ error' = why
  /\ pc' = "done"

\* loadPOC evaluates getUrl(url), which returns a url or a promise.
GetUrlOk ==
  /\ pc = "start"
  /\ UNCHANGED workerVars
  /\ pc' = "xhr"
  /\ promise' = "pending"
  /\ log' = Append(log, "getUrl")
  /\ UNCHANGED <<doc, error, objs, nodes, pcoRoot, pcoSpacing, pcoNodes,
                 pcoNodesSet, rootFrom, attached, i>>

\* getUrl's promise rejects.
GetUrlReject ==
  /\ pc = "start"
  /\ UNCHANGED workerVars
  /\ Reject("getUrl")
  /\ UNCHANGED <<doc, log, objs, nodes, pcoRoot, pcoSpacing, pcoNodes,
                 pcoNodesSet, rootFrom, attached, i>>

\* getUrl throws: loadPOC throws and returns no promise.
GetUrlThrow ==
  /\ pc = "start"
  /\ UNCHANGED workerVars
  /\ pc' = "done"
  /\ error' = "getUrlThrow"
  /\ UNCHANGED <<doc, promise, log, objs, nodes, pcoRoot, pcoSpacing, pcoNodes,
                 pcoNodesSet, rootFrom, attached, i>>

XhrRequestOk ==
  /\ pc = "xhr"
  /\ UNCHANGED workerVars
  /\ pc' = "json"
  /\ log' = Append(log, "xhrRequest")
  /\ UNCHANGED <<doc, promise, error, objs, nodes, pcoRoot, pcoSpacing,
                 pcoNodes, pcoNodesSet, rootFrom, attached, i>>

XhrRequestFail ==
  /\ pc = "xhr"
  /\ UNCHANGED workerVars
  /\ Reject("xhrRequest")
  /\ UNCHANGED <<doc, log, objs, nodes, pcoRoot, pcoSpacing, pcoNodes,
                 pcoNodesSet, rootFrom, attached, i>>

JsonOk ==
  /\ pc = "json"
  /\ UNCHANGED workerVars
  /\ pc' = "parse"
  /\ log' = Append(log, "json")
  /\ UNCHANGED <<doc, promise, error, objs, nodes, pcoRoot, pcoSpacing,
                 pcoNodes, pcoNodesSet, rootFrom, attached, i>>

JsonFail ==
  /\ pc = "json"
  /\ UNCHANGED workerVars
  /\ Reject("json")
  /\ UNCHANGED <<doc, log, objs, nodes, pcoRoot, pcoSpacing, pcoNodes,
                 pcoNodesSet, rootFrom, attached, i>>

\* parse's callback up to the call of loadRoot: the geometry object is
\* filled in and the version is parsed.
Parse ==
  /\ pc = "parse"
  /\ UNCHANGED workerVars
  /\ pcoSpacing' = doc.spacing
  /\ IF VersionRecognised(doc.version)
     THEN /\ pc' = "loadRoot"
          /\ log' = Append(log, "parse")
          /\ UNCHANGED <<promise, error>>
     ELSE /\ Reject("version")
          /\ UNCHANGED log
  /\ UNCHANGED <<doc, objs, nodes, pcoRoot, pcoNodes, pcoNodesSet, rootFrom,
                 attached, i>>

\* loadRoot up to the choice of root.numPoints.  data.hierarchy[0][1] throws
\* when the list is missing or empty.
LoadRootCreate ==
  /\ pc = "loadRoot"
  /\ UNCHANGED workerVars
  /\ LET root == [NewNode(R) EXCEPT !.hasChildren = TRUE,
                                    !.spacing = pcoSpacing]
     IN  IF upTo(doc.version, RootCountThreshold)
         THEN IF doc.hierarchyPresent /\ Len(doc.hierarchy) > 0
              THEN /\ objs' = (0 :> [root EXCEPT
                                 !.numPoints = doc.hierarchy[1].numPoints]) @@ objs
                   /\ rootFrom' = "list"
                   /\ pc' = "register"
                   /\ log' = Append(log, "createRoot")
                   /\ UNCHANGED <<promise, error>>
              ELSE /\ objs' = (0 :> root) @@ objs
                   /\ Reject("hierarchy0")
                   /\ UNCHANGED <<rootFrom, log>>
         ELSE /\ objs' = (0 :> [root EXCEPT !.numPoints = 0]) @@ objs
              /\ rootFrom' = "zero"
              /\ pc' = "register"
              /\ log' = Append(log, "createRoot")
              /\ UNCHANGED <<promise, error>>
  /\ UNCHANGED <<doc, nodes, pcoRoot, pcoSpacing, pcoNodes, pcoNodesSet,
                 attached, i>>

\* loadRoot's end: the root is stored and registered, and root.load() called.
LoadRootRegister ==
  /\ pc = "register"
  /\ UNCHANGED workerVars
  /\ pcoRoot' = {0}
  /\ nodes' = (R :> 0) @@ nodes
  /\ log' = log \o <<"registerRoot", "root.load">>
  /\ pc' = "rootLoading"
  /\ UNCHANGED <<doc, promise, error, objs, pcoSpacing, pcoNodes, pcoNodesSet,
                 rootFrom, attached, i>>

\* The promise of root.load() resolves.
RootLoadOk ==
  /\ pc = "rootLoading"
  /\ UNCHANGED workerVars
  /\ pc' = "then"
  /\ log' = Append(log, "root.loaded")
  /\ UNCHANGED <<doc, promise, error, objs, nodes, pcoRoot, pcoSpacing,
                 pcoNodes, pcoNodesSet, rootFrom, attached, i>>

\* The promise of root.load() rejects.
RootLoadFail ==
  /\ pc = "rootLoading"
  /\ UNCHANGED workerVars
  /\ Reject("root.load")
  /\ UNCHANGED <<doc, log, objs, nodes, pcoRoot, pcoSpacing, pcoNodes,
                 pcoNodesSet, rootFrom, attached, i>>

\* The callback after root.load(): the version decides whether the rest of
\* the tree is built from the list.
Then ==
  /\ pc = "then"
  /\ UNCHANGED workerVars
  /\ IF upTo(doc.version, LegacyThreshold)
     THEN /\ pc' = "hierarchy"
          /\ i' = 1
          /\ log' = Append(log, "loadRemainingHierarchy")
     ELSE /\ pc' = "assign"
          /\ UNCHANGED <<i, log>>
  /\ UNCHANGED <<doc, promise, error, objs, nodes, pcoRoot, pcoSpacing,
                 pcoNodes, pcoNodesSet, rootFrom, attached>>

\* One iteration of loadRemainingHierarchy's loop, or its exit.
HierarchyStep ==
  /\ pc = "hierarchy"
  /\ UNCHANGED workerVars
  /\ IF LoopCond(i, doc.hierarchy)
     THEN LET r == LoadEntry(nodes, objs, attached, i, doc.hierarchy[i + 1],
                             pcoSpacing)
          IN  IF r.threw
              THEN /\ Reject("entry")
                   /\ UNCHANGED <<nodes, objs, attached, i, log>>
              ELSE /\ nodes' = r.nodes
                   /\ objs' = r.objs
                   /\ attached' = r.attached
                   /\ i' = i + 1
                   /\ log' = Append(log, "entry")
                   /\ UNCHANGED <<pc, promise, error>>
     ELSE /\ pc' = "assign"
          /\ UNCHANGED <<promise, error, nodes, objs, attached, i, log>>
  /\ UNCHANGED <<doc, pcoRoot, pcoSpacing, pcoNodes, pcoNodesSet, rootFrom>>

\* pco.nodes = nodes; return pco: the promise resolves with the geometry.
Assign ==
  /\ pc = "assign"
  /\ UNCHANGED workerVars
  /\ pcoNodes' = nodes
  /\ pcoNodesSet' = TRUE
  /\ promise' = "resolved"
  /\ pc' = "done"
  /\ log' = log \o <<"pco.nodes", "resolve">>
  /\ UNCHANGED <<doc, error, objs, nodes, pcoRoot, pcoSpacing, rootFrom,
                 attached, i>>

NextLoader ==
  \/ GetUrlOk
  \/ GetUrlReject
  \/ GetUrlThrow
  \/ XhrRequestOk
  \/ XhrRequestFail
  \/ JsonOk
  \/ JsonFail
  \/ Parse
  \/ LoadRootCreate
  \/ LoadRootRegister
  \/ RootLoadOk
  \/ RootLoadFail
  \/ Then
  \/ HierarchyStep
  \/ Assign

----------------------------------------------------------------------------
(* Decode requests                                                         *)

\* Largest numPoints of a request.
MaxPoints == 2

\* Most messages the client sends in a run of several requests.
MaxRequests == 3

\* Two 28-byte records repeated to fill a buffer.  RecordA: X 33, Y 210,
\* Z 300, intensity 263, packed byte 43, point source 9, colours 785, 65535,
\* 513.  RecordB: X -1, Y 16777217, Z 0, intensity 65535, packed byte 255,
\* point source 256, colours 255, 256, 65280.
RecordA ==
  << 33, 0, 0, 0,   210, 0, 0, 0,   44, 1, 0, 0,   7, 1,   43,   0, 0, 0,
     9, 0,   17, 3,   255, 255,   1, 2,   0, 0 >>

RecordB ==
  << 255, 255, 255, 255,   1, 0, 0, 1,   0, 0, 0, 0,   255, 255,   255,
     0, 0, 0,   0, 1,   255, 0,   0, 1,   0, 255,   3, 4 >>

BufferOf(record, len) ==
  [k \in 1..len |-> record[((k - 1) % Len(record)) + 1]]

ParamsPool ==
  { [scale |-> <<1, 1, 1>>, offset |-> <<0, 0, 0>>, mins |-> <<0, 0, 0>>],
    [scale |-> <<2, 1, 2>>, offset |-> <<5, 0, 7>>, mins |-> <<1, 2, 0>>] }

\* Record sizes: the colour fields end at byte 26 of a record.
PointSizePool == {26, 28}

FormatPool == {0, 2, 3}

\* Buffer lengths tried for n records of size ps: exact, one byte short, one
\* byte long.
LengthsFor(n, ps) == {l \in {n * ps - 1, n * ps, n * ps + 1} : l >= 0}

Request(hasData, hasBuffer, buffer, n, ps, fmt, prm) ==
  [hasData |-> hasData, hasBuffer |-> hasBuffer, buffer |-> buffer,
   numPoints |-> n, pointSize |-> ps, pointFormatID |-> fmt,
   scale |-> prm.scale, offset |-> prm.offset, mins |-> prm.mins]

PlainParams == [scale |-> <<1, 1, 1>>, offset |-> <<0, 0, 0>>, mins |-> <<0, 0, 0>>]

\* A message without data, and one whose data has no buffer.
EmptyRequests ==
  { Request(FALSE, FALSE, <<>>, 0, 0, 0, PlainParams),
    Request(TRUE, FALSE, <<>>, 1, 28, 2, PlainParams) }

DecodeRequests ==
  UNION { { Request(TRUE, TRUE, BufferOf(rec, l), n, ps, fmt, prm) :
              rec \in {RecordA, RecordB}, fmt \in FormatPool,
              prm \in ParamsPool, l \in LengthsFor(n, ps) }
          : n \in 0..MaxPoints, ps \in PointSizePool }

\* Every request a single-request run may send.
RequestPool == EmptyRequests \cup DecodeRequests

\* The requests a run of several requests draws from.
SequencePool ==
  { r \in RequestPool :
      \/ ~r.hasBuffer /\ r.hasData
      \/ /\ r.hasBuffer
         /\ r.numPoints = MaxPoints
         /\ r.pointSize = 28
         /\ r.pointFormatID \in {0, 2}
         /\ r.scale = <<2, 1, 2>>
         /\ Len(r.buffer) \in {MaxPoints * 28 - 1, MaxPoints * 28} }

----------------------------------------------------------------------------
(* DataView and typed arrays                                               *)

\* A read of `size` bytes at byte offset `off` lies inside the buffer;
\* DataView's getters throw a RangeError otherwise.
InBounds(buffer, off, size) == off >= 0 /\ off + size <= Len(buffer)

Byte(buffer, off) == buffer[off + 1]

\* sourceView.getUint8(off)
getUint8(buffer, off) == Byte(buffer, off)

\* sourceView.getUint16(off, true)
getUint16(buffer, off) == Byte(buffer, off) + 256 * Byte(buffer, off + 1)

\* sourceView.getInt32(off, true)
getInt32(buffer, off) ==
  LET low == Byte(buffer, off) + 256 * Byte(buffer, off + 1)
               + 65536 * Byte(buffer, off + 2)
      b3  == Byte(buffer, off + 3)
  IN  (IF b3 >= 128 THEN b3 - 256 ELSE b3) * 16777216 + low

\* The spacing of float32 values around the non-negative integer n.
RECURSIVE Ulp(_)
Ulp(n) == IF n < 16777216 THEN 1 ELSE 2 * Ulp(n \div 2)

FroundNat(n) ==
  LET u == Ulp(n)
      q == n \div u
      r == n % u
  IN  IF 2 * r > u \/ (2 * r = u /\ q % 2 = 1) THEN (q + 1) * u ELSE q * u

\* The integer x as stored in a Float32Array: rounded to 24 significant bits,
\* ties to even.
Fround(x) == IF x < 0 THEN 0 - FroundNat(0 - x) ELSE FroundNat(x)

\* The number v >= 0 as stored in a Uint8Array: truncated, modulo 256.
ToUint8(v) == v % 256

\* Math.min and Math.max against a bound that starts at +Infinity or
\* -Infinity: [inf |-> TRUE] is the seed, [inf |-> FALSE, val |-> v] a number.
Seed == [inf |-> TRUE, val |-> 0]

MathMin(b, x) ==
  IF b.inf \/ x < b.val THEN [inf |-> FALSE, val |-> x] ELSE b

MathMax(b, x) ==
  IF b.inf \/ x > b.val THEN [inf |-> FALSE, val |-> x] ELSE b

Zeros(n) == [k \in 1..n |-> 0]

----------------------------------------------------------------------------
(* onmessage                                                               *)

\* The guard's early return: no data, or data without a buffer.
Ignored(e) == ~e.hasData \/ ~e.hasBuffer

\* The locals with the running mean carried over from the last activation.
OnMessageLocalsKeepMean(old, e) ==
  [positions       |-> Zeros(3 * e.numPoints),
   colors          |-> Zeros(4 * e.numPoints),
   intensities     |-> Zeros(e.numPoints),
   returnNumbers   |-> Zeros(e.numPoints),
   numberOfReturns |-> Zeros(e.numPoints),
   pointSourceIDs  |-> Zeros(e.numPoints),
   mean            |-> old.mean,
   min             |-> <<Seed, Seed, Seed>>,
   max             |-> <<Seed, Seed, Seed>>,
   readEnd         |-> 0,
   i               |-> 0]

\* The handler's locals as its declarations leave them, before the record
\* loop: zero-filled output buffers, mean 0, bounding box at its seeds.  The
\* locals of an earlier activation (old) are not read.  mean holds the sum
\* of the coordinates, mean[k] of the code being that sum over numPoints;
\* readEnd is the end of the furthest read made of the source buffer.
OnMessageLocals(old, e) ==
  [positions       |-> Zeros(3 * e.numPoints),
   colors          |-> Zeros(4 * e.numPoints),
   intensities     |-> Zeros(e.numPoints),
   returnNumbers   |-> Zeros(e.numPoints),
   numberOfReturns |-> Zeros(e.numPoints),
   pointSourceIDs  |-> Zeros(e.numPoints),
   mean            |-> <<0, 0, 0>>,
   min             |-> <<Seed, Seed, Seed>>,
   max             |-> <<Seed, Seed, Seed>>,
   readEnd         |-> 0,
   i               |-> 0]

\* Colours written for every format from 2 up.
HasColorFromTwoUp(fmt) == fmt >= 2

\* pointFormatID === 2
HasColor(fmt) == fmt = 2

\* The reads the loop makes of record k, in order: <<offset, size>>.
RecordReads(e, k) ==
  LET base == k * e.pointSize
  IN  << <<base, 4>>, <<base + 4, 4>>, <<base + 8, 4>>, <<base + 12, 2>>,
         <<base + 14, 1>>, <<base + 18, 2>> >>
      \o (IF HasColor(e.pointFormatID)
          THEN << <<base + 20, 2>>, <<base + 22, 2>>, <<base + 24, 2>> >>
          ELSE <<>>)

\* Some read of record k throws.
RecordThrows(e, k) ==
  \E j \in 1..Len(RecordReads(e, k)) :
     ~InBounds(e.buffer, RecordReads(e, k)[j][1], RecordReads(e, k)[j][2])

\* The end of the furthest read of record k that is made: the reads are in
\* ascending order and the first one out of bounds ends the handler.
RecordReadEnd(e, k, before) ==
  LET ends == { RecordReads(e, k)[j][1] + RecordReads(e, k)[j][2] :
                  j \in { j \in 1..Len(RecordReads(e, k)) :
                            InBounds(e.buffer, RecordReads(e, k)[j][1],
                                     RecordReads(e, k)[j][2]) } }
  IN  IF ends = {} THEN before
      ELSE CHOOSE m \in ends \cup {before} :
             \A x \in ends \cup {before} : x <= m

\* The loop's exit taken one record early.
LoopDoneOneEarly(k, n) == k >= n - 1

\* The record loop's exit: i < numPoints fails.
LoopDone(k, n) == k >= n

\* The loop body on record k, every read of it in bounds.
DecodeRecord(l, e, k) ==
  LET base == k * e.pointSize
      ux == getInt32(e.buffer, base)
      uy == getInt32(e.buffer, base + 4)
      uz == getInt32(e.buffer, base + 8)
      x == ux * e.scale[1] + e.offset[1] - e.mins[1]
      y == uy * e.scale[2] + e.offset[2] - e.mins[2]
      z == uz * e.scale[3] + e.offset[3] - e.mins[3]
      packed == getUint8(e.buffer, base + 14)
      withColor ==
        IF HasColor(e.pointFormatID)
        THEN [l.colors EXCEPT
                ![4 * k + 1] = ToUint8(getUint16(e.buffer, base + 20) \div 256),
                ![4 * k + 2] = ToUint8(getUint16(e.buffer, base + 22) \div 256),
                ![4 * k + 3] = ToUint8(getUint16(e.buffer, base + 24) \div 256),
                ![4 * k + 4] = 255]
        ELSE l.colors
  IN  [positions       |-> [l.positions EXCEPT ![3 * k + 1] = Fround(x),
                                               ![3 * k + 2] = Fround(y),
                                               ![3 * k + 3] = Fround(z)],
       colors          |-> withColor,
       intensities     |-> [l.intensities EXCEPT
                              ![k + 1] = getUint16(e.buffer, base + 12)],
       returnNumbers   |-> [l.returnNumbers EXCEPT ![k + 1] = packed % 8],
       numberOfReturns |-> [l.numberOfReturns EXCEPT
                              ![k + 1] = (packed \div 8) % 8],
       pointSourceIDs  |-> [l.pointSourceIDs EXCEPT
                              ![k + 1] = getUint16(e.buffer, base + 18)],
       mean            |-> <<l.mean[1] + x, l.mean[2] + y, l.mean[3] + z>>,
       min             |-> <<MathMin(l.min[1], x), MathMin(l.min[2], y),
                             MathMin(l.min[3], z)>>,
       max             |-> <<MathMax(l.max[1], x), MathMax(l.max[2], y),
                             MathMax(l.max[3], z)>>,
       readEnd         |-> RecordReadEnd(e, k, l.readEnd),
       i               |-> k + 1]

\* The message built after the loop: the aggregates, the output buffers and
\* the identity index array.
Message(l, e) ==
  [mean             |-> l.mean,
   position         |-> l.positions,
   color            |-> l.colors,
   intensity        |-> l.intensities,
   returnNumber     |-> l.returnNumbers,
   numberOfReturns  |-> l.numberOfReturns,
   pointSourceID    |-> l.pointSourceIDs,
   tightBoundingBox |-> [min |-> l.min, max |-> l.max],
   indices          |-> [k \in 1..e.numPoints |-> k - 1]]

IdleEvent == Request(FALSE, FALSE, <<>>, 0, 0, 0, PlainParams)

Ended(e, outcome, l, messages) ==
  [req |-> e, outcome |-> outcome, processed |-> l.i, readEnd |-> l.readEnd,
   messages |-> messages]

\* The requests the client draws from in each kind of run.
PoolOf(kind) ==
  CASE kind = "single" -> RequestPool
    [] kind = "sequence" -> SequencePool
    [] OTHER -> {}

InitWorker(kind, n) ==
  /\ run = kind
  /\ budget = n
  /\ inbox = <<>>
  /\ wpc = "idle"
  /\ ev = IdleEvent
  /\ loc = OnMessageLocals([mean |-> <<0, 0, 0>>], IdleEvent)
  /\ handled = <<>>

\* The client posts a request to the worker.
Deliver ==
  /\ budget > 0
  /\ \E r \in PoolOf(run) : inbox' = Append(inbox, r)
  /\ budget' = budget - 1
  /\ UNCHANGED <<run, wpc, ev, loc, handled>>
  /\ UNCHANGED loaderVars

\* onmessage is entered with the next message: the guard, then the
\* declarations up to the record loop.
OnMessage ==
  /\ wpc = "idle"
  /\ inbox # <<>>
  /\ inbox' = Tail(inbox)
  /\ ev' = Head(inbox)
  /\ IF Ignored(Head(inbox))
     THEN /\ handled' = Append(handled, Ended(Head(inbox), "ignored",
                                  [i |-> 0, readEnd |-> 0], <<>>))
          /\ UNCHANGED <<wpc, loc>>
     ELSE /\ loc' = OnMessageLocals(loc, Head(inbox))
          /\ wpc' = "loop"
          /\ UNCHANGED handled
  /\ UNCHANGED <<run, budget>>
  /\ UNCHANGED loaderVars

\* One pass of the record loop, or its exit.
RecordStep ==
  /\ wpc = "loop"
  /\ IF LoopDone(loc.i, ev.numPoints)
     THEN /\ wpc' = "post"
          /\ UNCHANGED <<loc, handled>>
     ELSE IF RecordThrows(ev, loc.i)
          THEN /\ wpc' = "idle"
               /\ loc' = [loc EXCEPT !.readEnd = RecordReadEnd(ev, loc.i, @)]
               /\ handled' = Append(handled, Ended(ev, "threw", loc', <<>>))
          ELSE /\ loc' = DecodeRecord(loc, ev, loc.i)
               /\ UNCHANGED <<wpc, handled>>
  /\ UNCHANGED <<run, budget, inbox, ev>>
  /\ UNCHANGED loaderVars

\* The index array is filled and the one message posted.
PostMessage ==
  /\ wpc = "post"
  /\ handled' = Append(handled, Ended(ev, "posted", loc, <<Message(loc, ev)>>))
  /\ wpc' = "idle"
  /\ UNCHANGED <<run, budget, inbox, ev, loc>>
  /\ UNCHANGED loaderVars

NextWorker ==
  \/ Deliver
  \/ OnMessage
  \/ RecordStep
  \/ PostMessage

\* A loader at rest, for the runs of the worker alone.
IdleDoc ==
  [version |-> <<"1",".","7">>, spacing |-> 8, hierarchyPresent |-> FALSE,
   hierarchy |-> <<>>]

Init == InitLoader /\ InitWorker("none", 0)

Next == NextLoader

\* A load of one document.
Spec == Init /\ [][Next]_vars

InitDecode ==
  /\ InitLoader
  /\ doc = IdleDoc
  /\ InitWorker("single", 1)

\* The worker handling one request.
SpecDecode == InitDecode /\ [][NextWorker]_vars

InitDecodeSeq ==
  /\ InitLoader
  /\ doc = IdleDoc
  /\ InitWorker("sequence", MaxRequests)

\* The worker handling a run of requests.
SpecDecodeSeq == InitDecodeSeq /\ [][NextWorker]_vars

----------------------------------------------------------------------------
(* Properties of the loader                                                *)

V14 == <<"1",".","4">>
V15 == <<"1",".","5">>

AtOrBelow(d, threshold) ==
  VersionRecognised(d.version) /\ upTo(d.version, threshold)

IsLegacy(d) == AtOrBelow(d, V14)

\* A name minus its last character.
Front(n) == SubSeq(n, 1, Len(n) - 1)

ParentBeforeChild(h) ==
  /\ Len(h) >= 1
  /\ h[1].name = R
  /\ \A k \in 2..Len(h) :
       /\ Len(h[k].name) > 1
       /\ \E j \in 1..(k - 1) : h[j].name = Front(h[k].name)

DistinctNames(h) == \A j, k \in 1..Len(h) : h[j].name = h[k].name => j = k

\* Entry k of the list is in the returned table as the claim describes.
EntryBuilt(k) ==
  LET n == doc.hierarchy[k].name
  IN  /\ n \in DOMAIN pcoNodes
      /\ k > 1 =>
           LET id == pcoNodes[n]
               node == objs[id]
           IN  /\ node.level = Len(n) - 1
               /\ node.numPoints = doc.hierarchy[k].numPoints
               /\ node.spacing * Pow2(node.level) = objs[pcoNodes[R]].spacing
               /\ objs[pcoNodes[R]].spacing = doc.spacing
               /\ Front(n) \in DOMAIN pcoNodes
               /\ \E a \in attached : a[1] = pcoNodes[Front(n)] /\ a[2] = id

NoSharedName ==
  \A a, b \in DOMAIN pcoNodes :
     objs[pcoNodes[a]].name = objs[pcoNodes[b]].name => a = b

TreeBuilt ==
  /\ \A k \in 1..Len(doc.hierarchy) : EntryBuilt(k)
  /\ NoSharedName

\* C1 as stated: for a legacy document whose list is parent-before-child,
\* once loadPOC has resolved every listed name is a key of the returned
\* table, the node under a non-root name has level = length - 1, the entry's
\* point count, spacing = root spacing / 2^level and was attached to the node
\* stored under its parent's name, and no two nodes of the table share a name.
C1_AsStated ==
  (promise = "resolved" /\ IsLegacy(doc) /\ ParentBeforeChild(doc.hierarchy))
    => TreeBuilt

\* C1 amended: the same, for a parent-before-child list whose names are
\* pairwise distinct.
C1_DistinctNamesBuilt ==
  (/\ promise = "resolved"
   /\ IsLegacy(doc)
   /\ ParentBeforeChild(doc.hierarchy)
   /\ DistinctNames(doc.hierarchy))
    => TreeBuilt

C1_Witness ==
  /\ promise = "resolved"
  /\ IsLegacy(doc)
  /\ ParentBeforeChild(doc.hierarchy)
  /\ DistinctNames(doc.hierarchy)
  /\ Len(doc.hierarchy) = 3
  /\ Len(doc.hierarchy[3].name) = 3

IsPrefix(a, b) == Len(a) <= Len(b) /\ SubSeq(b, 1, Len(a)) = a

\* The steps of a load of document d that runs to its end.
FullRun(d) ==
  <<"getUrl", "xhrRequest", "json", "parse", "createRoot", "registerRoot",
    "root.load", "root.loaded">>
  \o (IF IsLegacy(d)
      THEN <<"loadRemainingHierarchy">>
           \o [k \in 1..(Len(d.hierarchy) - 1) |-> "entry"]
      ELSE <<>>)
  \o <<"pco.nodes", "resolve">>

\* C2: the steps of loadPOC happen in the one order url transform, metadata
\* fetch, JSON parse, root creation, root registration, root.load(), (legacy
\* only) one step per remaining list entry, table assignment, resolution;
\* the promise is resolved only at the end of that order and is pending
\* while the hierarchy is being populated.
C2_StepsInOrder ==
  /\ IsPrefix(log, FullRun(doc))
  /\ promise = "resolved" => log = FullRun(doc)
  /\ pc = "hierarchy" => promise = "pending"

C2_Witness ==
  /\ promise = "resolved"
  /\ IsLegacy(doc)
  /\ Len(doc.hierarchy) = 3

\* Entry k's parent name is not among the names registered before it.
MissingAt(h, k) ==
  Front(h[k].name) \notin ({R} \cup {h[j].name : j \in 2..(k - 1)})

HasMissingParent(h) == \E k \in 2..Len(h) : MissingAt(h, k)

FirstMissingParent(h) ==
  CHOOSE k \in 2..Len(h) :
    MissingAt(h, k) /\ \A j \in 2..(k - 1) : ~MissingAt(h, j)

\* C3: when an entry of a legacy document's list has its parent name missing
\* from the table at its turn, the load never resolves and never assigns the
\* node table to the geometry, no entry from that one on is processed, and a
\* load that got as far as that entry ends rejected.
C3_MissingParentRejects ==
  (IsLegacy(doc) /\ HasMissingParent(doc.hierarchy)) =>
    LET m == FirstMissingParent(doc.hierarchy)
    IN  /\ promise # "resolved"
        /\ ~pcoNodesSet
        /\ i <= m - 1
        /\ \A id \in DOMAIN objs : id < m - 1
        /\ (pc = "done" /\ "loadRemainingHierarchy" \in {log[k] : k \in 1..Len(log)})
             => (promise = "rejected" /\ error = "entry" /\ i = m - 1)

C3_Witness ==
  /\ IsLegacy(doc)
  /\ HasMissingParent(doc.hierarchy)
  /\ error = "entry"
  /\ promise = "rejected"
  /\ i = 2

OctalChars == {"0", "1", "2", "3", "4", "5", "6", "7"}

MalformedName(n) == Len(n) = 0 \/ n[Len(n)] \notin OctalChars

\* C4: a malformed name (empty, or last character not an octal digit) in a
\* legacy document's list aborts the load: the load never resolves, no node
\* is created for a malformed entry, and every attachment is at an octant
\* index in 0..7.
C4_MalformedNameAborts ==
  /\ (IsLegacy(doc) /\ \E k \in 2..Len(doc.hierarchy) :
                          MalformedName(doc.hierarchy[k].name))
       => promise # "resolved"
  /\ \A id \in DOMAIN objs : id >= 1 => ~MalformedName(objs[id].name)
  /\ \A a \in attached : a[3] \in 0..7

Populated == "loadRemainingHierarchy" \in {log[k] : k \in 1..Len(log)}

\* C6 as stated: the root's point count is taken from the list exactly when
\* the document is at or below 1.4, is 0 exactly when it is newer, and that
\* is exactly the case in which the remaining tree is populated.
C6_AsStated ==
  /\ rootFrom # "unset" =>
       /\ rootFrom = "list" <=> IsLegacy(doc)
       /\ rootFrom = "zero" <=> ~IsLegacy(doc)
  /\ promise = "resolved" => (Populated <=> rootFrom = "list")

\* C6 amended: the root's point count is taken from the first list entry
\* exactly when the version is at or below 1.5 and is 0 exactly when it is
\* newer than 1.5; the remaining tree is populated exactly when the version
\* is at or below 1.4; the two decisions agree for every version except
\* those above 1.4 and at or below 1.5.
C6_TwoThresholds ==
  /\ rootFrom # "unset" =>
       /\ rootFrom = "list" <=> AtOrBelow(doc, V15)
       /\ rootFrom = "zero" <=> ~AtOrBelow(doc, V15)
       /\ 0 \in DOMAIN objs =>
            objs[0].numPoints =
              IF rootFrom = "list" THEN doc.hierarchy[1].numPoints ELSE 0
  /\ promise = "resolved" =>
       /\ Populated <=> IsLegacy(doc)
       /\ (IsLegacy(doc) \/ ~AtOrBelow(doc, V15)) =>
            (Populated <=> rootFrom = "list")

C6_Witness ==
  /\ promise = "resolved"
  /\ doc.version = V15
  /\ rootFrom = "list"
  /\ ~Populated

MalformedDoc(d) ==
  \/ ~VersionRecognised(d.version)
  \/ IsLegacy(d) /\ (~d.hierarchyPresent \/ Len(d.hierarchy) = 0)

\* C8: a malformed document (unrecognised version, or legacy version with a
\* missing or empty list) never resolves, fails with the promise rejected,
\* and no node object is constructed or registered for it.
C8_MalformedFailsBeforeNodes ==
  MalformedDoc(doc) =>
    /\ promise # "resolved"
    /\ pc = "done" => error # "none"
    /\ DOMAIN objs = {}
    /\ DOMAIN nodes = {}

----------------------------------------------------------------------------
(* Properties of the decoder                                               *)

Handled == {handled[k] : k \in 1..Len(handled)}

IsDecode(r) == r.hasData /\ r.hasBuffer

\* C5: a buffer of exactly numPoints * pointSize bytes decodes to a result,
\* a buffer one byte shorter ends in an error with no result, and no read
\* reaches an offset at or beyond the buffer's length.
C5_ExactDecodesShortFails ==
  /\ \A h \in Handled :
       IsDecode(h.req) =>
         /\ Len(h.req.buffer) = h.req.numPoints * h.req.pointSize
              => h.outcome = "posted"
         /\ Len(h.req.buffer) = h.req.numPoints * h.req.pointSize - 1
              => (h.outcome = "threw" /\ h.messages = <<>>)
         /\ h.readEnd <= Len(h.req.buffer)
  /\ wpc # "idle" => loc.readEnd <= Len(ev.buffer)

\* The message carries every output buffer, each sized for n points.
Complete(m, n) ==
  /\ Len(m.position) = 3 * n
  /\ Len(m.color) = 4 * n
  /\ Len(m.intensity) = n
  /\ Len(m.returnNumber) = n
  /\ Len(m.numberOfReturns) = n
  /\ Len(m.pointSourceID) = n
  /\ Len(m.indices) = n

OneMessageAtTheEnd(h) ==
  /\ Len(h.messages) <= 1
  /\ h.outcome = "posted" <=> Len(h.messages) = 1
  /\ h.outcome = "posted" =>
       /\ h.processed = h.req.numPoints
       /\ Complete(h.messages[1], h.req.numPoints)

\* C7 as stated, read in the claim's favour (an error in place of the result
\* is allowed): every message delivered to the handler ends with its one
\* result message, posted after all numPoints records, or with an error.
C7_AsStated ==
  \A h \in Handled :
     /\ h.outcome \in {"posted", "threw"}
     /\ OneMessageAtTheEnd(h)

\* C7 amended: a message that carries data with a buffer ends with exactly
\* one result message, posted after all numPoints records and carrying every
\* output buffer, or with an error and no message; a message without data or
\* without a buffer is ignored, with neither a result nor an error.
C7_OneMessageOrErrorUnlessIgnored ==
  \A h \in Handled :
     /\ h.outcome = "ignored" <=> ~IsDecode(h.req)
     /\ h.outcome \in {"ignored", "posted", "threw"}
     /\ OneMessageAtTheEnd(h)

C7_Witness ==
  \E h \in Handled :
     /\ h.outcome = "posted"
     /\ h.req.numPoints = 2
     /\ h.processed = 2

\* The unsigned 16-bit little-endian value at offset off.
U16At(buffer, off) == buffer[off + 1] + 256 * buffer[off + 2]

\* C9: in a posted result, when pointFormatID is 2 record j's colour bytes
\* are the three 16-bit channels at record offsets 20/22/24, each divided by
\* 256 and floored, then 255; for any other pointFormatID all 4 * numPoints
\* colour bytes keep their initial content, zero.
C9_ColourOnlyForFormatTwo ==
  \A h \in Handled :
     h.outcome = "posted" =>
       LET m == h.messages[1]
           r == h.req
       IN  /\ Len(m.color) = 4 * r.numPoints
           /\ IF r.pointFormatID = 2
              THEN \A j \in 0..(r.numPoints - 1) :
                     /\ m.color[4 * j + 1] =
                          U16At(r.buffer, j * r.pointSize + 20) \div 256
                     /\ m.color[4 * j + 2] =
                          U16At(r.buffer, j * r.pointSize + 22) \div 256
                     /\ m.color[4 * j + 3] =
                          U16At(r.buffer, j * r.pointSize + 24) \div 256
                     /\ m.color[4 * j + 4] = 255
              ELSE \A j \in 1..(4 * r.numPoints) : m.color[j] = 0

C9_Witness ==
  \E h \in Handled :
     /\ h.outcome = "posted"
     /\ h.req.pointFormatID = 2
     /\ h.req.numPoints = 2
     /\ h.messages[1].color[1] = 3
     /\ h.messages[1].color[8] = 255

\* C10: two handled requests with the same buffer contents and parameters
\* end the same way and post the same messages, whatever was handled before
\* or between them.
C10_SameRequestSameResult ==
  \A a, b \in 1..Len(handled) :
     handled[a].req = handled[b].req =>
       /\ handled[a].outcome = handled[b].outcome
       /\ handled[a].messages = handled[b].messages

C10_Witness ==
  /\ Len(handled) = 3
  /\ handled[1].req = handled[3].req
  /\ handled[2].req # handled[1].req
  /\ handled[1].outcome = "posted"
  /\ handled[2].outcome = "posted"
  /\ handled[3].outcome = "posted"

====
